---- MODULE Spec2Model ----
(***************************************************************************)
(* Model of IA-Juan/ImgRecognition: the gray-level quantizer               *)
(* (ImageProcessor.reduce_gray_levels of tp3.py and tp3_V3.py) and the     *)
(* program around it (constructor, show_all / process_all, __main__).      *)
(*                                                                         *)
(* An array is a record [kind, dtype, px]: px is the flattened grid, dtype *)
(* the NumPy sample type.  A call that raises gives a record whose kind is *)
(* the exception's name and whose px is empty.                             *)
(***************************************************************************)
EXTENDS Integers, Sequences, FiniteSets, TLC

VARIABLES
    numpy2,     \* TRUE: NumPy >= 2 (NEP 50 scalar promotion); FALSE: NumPy 1.x
    q_img,      \* quantizer harness: the 8-bit grid handed to reduce_gray_levels
    q_levels,   \* quantizer harness: the levels argument
    q_once,     \* tp3.py reduce_gray_levels(q_img, q_levels)
    q_twice,    \* tp3.py reduce_gray_levels(q_once, q_levels)
    q_v3,       \* tp3_V3.py reduce_gray_levels(q_img, q_levels)
    prog,       \* the script that is run: "tp3" or "tp3_V3"
    argv,       \* sys.argv[1] as a path or URL; scheme "none" when absent
    fs,         \* the file system: absolute path -> content
    pc,         \* position of the process of __main__
    self,       \* the fields of the ImageProcessor
    answer,     \* what the user typed at the prompt of __init__, "" if not asked
    error,      \* the exception that ended the process, "" if none
    level_idx,  \* show_all / process_all: index of the next level of the loop
    images,     \* show_all / process_all: the grids shown so far
    saved,      \* the grids handed to plt.imsave, by file name
    fetches,    \* per target path, the calls of urlretrieve that wrote it
    calls,      \* calls of reduce_gray_levels and save_image in this process
    runs        \* processes launched so far

qvars == <<q_img, q_levels, q_once, q_twice, q_v3>>
rvars == <<prog, argv, fs, pc, self, answer, error, level_idx, images, saved,
           fetches, calls, runs>>
vars == <<numpy2, qvars, rvars>>

-----------------------------------------------------------------------------
(* Bounds of the model *)

MaxPixels == 2
MaxNegLevels == 3
MaxOverLevels == 2
MaxRuns == 2

-----------------------------------------------------------------------------
(* Python and NumPy arithmetic *)

Range(s) == {s[i] : i \in DOMAIN s}

\* Python's int // int for a non-zero divisor: the floor of the quotient
PyFloorDiv(a, b) == IF b > 0 THEN a \div b ELSE (0 - a) \div (0 - b)

\* the values a NumPy integer dtype holds
DtypeLo(d) ==
    CASE d = "uint8" -> 0
      [] d = "uint16" -> 0
      [] d = "int16" -> 0 - 32768
      [] d = "int32" -> (0 - 2147483647) - 1

DtypeHi(d) ==
    CASE d = "uint8" -> 255
      [] d = "uint16" -> 65535
      [] d = "int16" -> 32767
      [] d = "int32" -> 2147483647

\* integer results wrap around in the dtype (two's complement); no value of
\* the model leaves int32
Wrap(d, x) ==
    IF d = "int32" THEN x
    ELSE DtypeLo(d) + ((x - DtypeLo(d)) % (DtypeHi(d) - DtypeLo(d) + 1))

NotCalled == [kind |-> "not called", dtype |-> "none", px |-> << >>]

Raise(exc) == [kind |-> exc, dtype |-> "none", px |-> << >>]

Array(d, samples) == [kind |-> "ok", dtype |-> d, px |-> samples]

\* The dtype of <array of dtype d> OP <Python int s>.
\* NumPy >= 2 (NEP 50): the Python int is cast to the array's dtype, and a
\* value outside it raises OverflowError.  NumPy 1.x: value-based casting,
\* the smallest dtype holding both the array's dtype and the value of s.
ResultDtype(d, s) ==
    IF numpy2
    THEN IF DtypeLo(d) <= s /\ s <= DtypeHi(d) THEN d ELSE "OverflowError"
    ELSE CASE d = "uint8" ->
                (IF s < 0 THEN "int16" ELSE IF s <= 255 THEN "uint8" ELSE "uint16")
           [] d = "uint16" -> (IF s < 0 THEN "int32" ELSE "uint16")
           [] d = "int16" -> "int16"
           [] d = "int32" -> "int32"

\* ndarray // int, elementwise; an integer division by zero warns and gives 0
NpFloorDivide(a, s) ==
    IF a.kind # "ok" THEN a
    ELSE LET d == ResultDtype(a.dtype, s) IN
         IF d = "OverflowError" THEN Raise("OverflowError")
         ELSE Array(d, [i \in DOMAIN a.px |->
                          IF s = 0 THEN 0 ELSE Wrap(d, PyFloorDiv(a.px[i], s))])

\* ndarray * int, elementwise
NpMultiply(a, s) ==
    IF a.kind # "ok" THEN a
    ELSE LET d == ResultDtype(a.dtype, s) IN
         IF d = "OverflowError" THEN Raise("OverflowError")
         ELSE Array(d, [i \in DOMAIN a.px |-> Wrap(d, a.px[i] * s)])

\* ndarray.astype(np.uint8): an unchecked C cast, the low 8 bits
AsUint8(a) ==
    IF a.kind # "ok" THEN a
    ELSE Array("uint8", [i \in DOMAIN a.px |-> Wrap("uint8", a.px[i])])

-----------------------------------------------------------------------------
(* The quantizer *)

\* a reduction that forgets the clamp of levels
NoClamp(levels) == levels

\* tp3.py: levels above 256 are limited to 256
ClampLevels(levels) == IF levels > 256 THEN 256 ELSE levels

\* a reduction that returns the bucket index, not the bucket's lowest member
QuotientOnly(quotient, factor) == quotient

\* tp3.py: the product of the quotient and the factor
Requantize(quotient, factor) == NpMultiply(quotient, factor)

\* tp3.py ImageProcessor.reduce_gray_levels
reduce_gray_levels(gray_image, levels) ==
    LET lv == ClampLevels(levels) IN
    IF lv = 0 THEN Raise("ZeroDivisionError")
    ELSE LET factor == PyFloorDiv(256, lv) IN
         Requantize(NpFloorDivide(gray_image, factor), factor)

\* tp3_V3.py ImageProcessor.reduce_gray_levels
reduce_gray_levels_V3(image, levels) ==
    IF levels = 0 THEN Raise("ZeroDivisionError")
    ELSE LET factor == PyFloorDiv(256, levels) IN
         AsUint8(NpMultiply(NpFloorDivide(image, factor), factor))

-----------------------------------------------------------------------------
(* Paths, URLs and files *)

\* A path or URL is [scheme, dir, stem, ext]: dir the directory segments,
\* stem the parts of the file name joined by "_", scheme "" for a local path.
Path(d, st, e) == [scheme |-> "", dir |-> d, stem |-> st, ext |-> e]

NoPath == [scheme |-> "none", dir |-> << >>, stem |-> << >>, ext |-> ""]

NoName == [stem |-> << >>, ext |-> ""]

\* os.path.basename, and urlparse(...).path followed by os.path.basename
basename(p) == [stem |-> p.stem, ext |-> p.ext]

\* os.path.join(directory, name)
join(directory, name) == Path(<<directory>>, name.stem, name.ext)

\* os.path.abspath: a relative path is resolved against the working directory
abspath(p) ==
    IF p.dir # << >> /\ p.dir[1] = "/" THEN p
    ELSE [p EXCEPT !.dir = <<"/", "cwd">> \o p.dir]

\* os.path.splitext(name)[0]
splitext0(name) == name.stem

\* image_path.startswith("http://") or image_path.startswith("https://")
IsUrl(p) == p.scheme \in {"http", "https"}

Absent == [kind |-> "absent", bgr |-> << >>]

Corrupt == [kind |-> "corrupt", bgr |-> << >>]

ImageFile(grid) == [kind |-> "image", bgr |-> grid]

\* os.path.exists
exists(files, p) ==
    /\ p.scheme = ""
    /\ abspath(p) \in DOMAIN files
    /\ files[abspath(p)].kind # "absent"

\* a constructor that fetches whether or not the target is there
AlwaysDownload(files, target) == TRUE

\* the download guard of __init__: fetch only a target that is not there
NeedsDownload(files, target) == ~exists(files, target)

DefaultUrl ==
    [scheme |-> "https", dir |-> <<"upload.wikimedia.org", "wikipedia", "en", "7", "7d">>,
     stem |-> <<"Lenna", "%28test", "image%29">>, ext |-> ".png"]

\* tp3.py: 'Lenna_test_image.png'
DefaultName == [stem |-> <<"Lenna", "test", "image">>, ext |-> ".png"]

\* tp3_V3.py: 'default.png'
DefaultNameV3 == [stem |-> <<"default">>, ext |-> ".png"]

OutputDir == "images"

\* urllib.request.urlretrieve(url, target).  net is what the network does:
\* "image" and "corrupt" write the whole body, "partial" writes a part of it
\* and raises ContentTooShortError, "error" raises URLError before the file
\* is opened.
urlretrieve(files, target, net, body) ==
    CASE net = "image" -> [fs |-> [files EXCEPT ![abspath(target)] = ImageFile(body)],
                           error |-> "", wrote |-> TRUE]
      [] net = "corrupt" -> [fs |-> [files EXCEPT ![abspath(target)] = Corrupt],
                             error |-> "", wrote |-> TRUE]
      [] net = "partial" -> [fs |-> [files EXCEPT ![abspath(target)] = Corrupt],
                             error |-> "ContentTooShortError", wrote |-> TRUE]
      [] net = "error" -> [fs |-> files, error |-> "URLError", wrote |-> FALSE]

-----------------------------------------------------------------------------
(* OpenCV *)

None == [kind |-> "None", dtype |-> "none", px |-> << >>]

Unset == [kind |-> "unset", dtype |-> "none", px |-> << >>]

\* cv2.imread: the decoded BGR grid, or None for a file that is missing or
\* does not decode
imread(files, p) ==
    IF exists(files, p) /\ files[abspath(p)].kind = "image"
    THEN Array("uint8", files[abspath(p)].bgr)
    ELSE None

\* cv2.cvtColor(bgr, cv2.COLOR_BGR2RGB); an empty source raises cv2.error
BGR2RGB(bgr) ==
    IF bgr.kind # "ok" THEN Raise("cv2.error")
    ELSE Array("uint8", [i \in DOMAIN bgr.px |-> <<bgr.px[i][3], bgr.px[i][2], bgr.px[i][1]>>])

\* cv2.cvtColor(bgr, cv2.COLOR_BGR2GRAY): OpenCV's 15-bit fixed point
\* 0.299 R + 0.587 G + 0.114 B, rounded
BGR2GRAY(bgr) ==
    IF bgr.kind # "ok" THEN Raise("cv2.error")
    ELSE Array("uint8", [i \in DOMAIN bgr.px |->
            (bgr.px[i][3] * 9798 + bgr.px[i][2] * 19235 + bgr.px[i][1] * 3735 + 16384)
                \div 32768])

Abs(x) == IF x < 0 THEN 0 - x ELSE x

\* cv2.Canny(gray, 100, 200) on a one-row grid: the central difference with
\* replicated borders, a strong edge above the high threshold, a weak one
\* above the low threshold kept when it touches a strong one
Canny(gray, low, high) ==
    LET n == Len(gray.px)
        At(i) == gray.px[IF i < 1 THEN 1 ELSE IF i > n THEN n ELSE i]
        Mag(i) == Abs(At(i + 1) - At(i - 1))
        Strong(i) == i \in 1..n /\ Mag(i) > high
        Weak(i) == Mag(i) > low
    IN  Array("uint8", [i \in 1..n |->
            IF Strong(i) \/ (Weak(i) /\ (Strong(i - 1) \/ Strong(i + 1)))
            THEN 255 ELSE 0])

-----------------------------------------------------------------------------
(* ImageProcessor.__init__ *)

NoObject ==
    [output_dir |-> "", image_name |-> NoName, image_path |-> NoPath,
     image_prefix |-> << >>, image_bgr |-> Unset, image_rgb |-> Unset,
     image_gray |-> Unset]

\* a prompt whose answer is never taken as a refusal
AcceptsAnything(user_input) == TRUE

\* tp3.py: user_input == 's', after strip() and lower()
Accepts(user_input) == user_input = "s"

DefaultSource(asked) ==
    [name |-> DefaultName, path |-> join(OutputDir, DefaultName), url |-> DefaultUrl,
     remote |-> TRUE, asked |-> asked, exit |-> FALSE]

\* tp3.py __init__: the file to load, and whether the branch fetches it
SelectSource(arg, files, user_input) ==
    IF arg.scheme # "none"
    THEN IF IsUrl(arg)
         THEN [name |-> basename(arg), path |-> join(OutputDir, basename(arg)),
               url |-> arg, remote |-> TRUE, asked |-> FALSE, exit |-> FALSE]
         ELSE IF exists(files, arg)
         THEN [name |-> basename(abspath(arg)), path |-> abspath(arg),
               url |-> NoPath, remote |-> FALSE, asked |-> FALSE, exit |-> FALSE]
         ELSE IF Accepts(user_input)
         THEN DefaultSource(TRUE)
         ELSE [name |-> NoName, path |-> NoPath, url |-> NoPath,
               remote |-> FALSE, asked |-> TRUE, exit |-> TRUE]
    ELSE DefaultSource(FALSE)

NoFetch(files) == [fs |-> files, error |-> "", wrote |-> FALSE]

\* tp3.py: the check of the result of cv2.imread
LoadFailed(bgr) == bgr.kind = "None"

\* tp3.py ImageProcessor.__init__(image_path): the object, the file system,
\* the exception if one is raised, and the target written by urlretrieve
init_tp3(arg, files, user_input, net, body) ==
    LET src == SelectSource(arg, files, user_input)
        dl == IF ~src.exit /\ src.remote /\ NeedsDownload(files, src.path)
              THEN urlretrieve(files, src.path, net, body)
              ELSE NoFetch(files)
        named == [NoObject EXCEPT !.output_dir = OutputDir,
                                  !.image_name = src.name,
                                  !.image_path = src.path]
        bgr == imread(dl.fs, src.path)
        read == [named EXCEPT !.image_prefix = splitext0(src.name),
                              !.image_bgr = bgr]
        asked == IF src.asked THEN user_input ELSE ""
        target == IF dl.wrote THEN src.path ELSE NoPath
    IN  IF src.exit
        THEN [self |-> [NoObject EXCEPT !.output_dir = OutputDir], fs |-> files,
              pc |-> "exited", error |-> "SystemExit", answer |-> asked, wrote |-> NoPath]
        ELSE IF dl.error # ""
        THEN [self |-> named, fs |-> dl.fs, pc |-> "raised", error |-> dl.error,
              answer |-> asked, wrote |-> target]
        ELSE IF LoadFailed(bgr)
        THEN [self |-> read, fs |-> dl.fs, pc |-> "raised", error |-> "FileNotFoundError",
              answer |-> asked, wrote |-> target]
        ELSE IF bgr.kind # "ok"
        THEN [self |-> read, fs |-> dl.fs, pc |-> "raised", error |-> "cv2.error",
              answer |-> asked, wrote |-> target]
        ELSE [self |-> [read EXCEPT !.image_rgb = BGR2RGB(bgr),
                                    !.image_gray = BGR2GRAY(bgr)],
              fs |-> dl.fs, pc |-> "depth", error |-> "", answer |-> asked,
              wrote |-> target]

\* tp3_V3.py ImageProcessor.__init__(image_path): a given path or URL is
\* handed to cv2.imread as it is; cv2.cvtColor raises on None
init_V3(arg, files, net, body) ==
    LET path == IF arg.scheme # "none" THEN arg ELSE join(OutputDir, DefaultNameV3)
        dl == IF arg.scheme = "none" /\ NeedsDownload(files, path)
              THEN urlretrieve(files, path, net, body)
              ELSE NoFetch(files)
        named == [NoObject EXCEPT !.output_dir = OutputDir, !.image_path = path]
        bgr == imread(dl.fs, path)
        read == [named EXCEPT !.image_bgr = bgr]
        target == IF dl.wrote THEN path ELSE NoPath
    IN  IF dl.error # ""
        THEN [self |-> named, fs |-> dl.fs, pc |-> "raised", error |-> dl.error,
              answer |-> "", wrote |-> target]
        ELSE IF bgr.kind # "ok"
        THEN [self |-> read, fs |-> dl.fs, pc |-> "raised", error |-> "cv2.error",
              answer |-> "", wrote |-> target]
        ELSE [self |-> [read EXCEPT !.image_rgb = BGR2RGB(bgr),
                                    !.image_gray = BGR2GRAY(bgr)],
              fs |-> dl.fs, pc |-> "show_rgb", error |-> "", answer |-> "",
              wrote |-> target]

-----------------------------------------------------------------------------
(* show_all (tp3.py) and process_all (tp3_V3.py) *)

\* the levels of the loop of show_all and process_all
LevelsList == <<2, 4, 8, 16, 32, 64, 128, 256>>

\* the file save_image writes: tp3.py joins prefix and suffix with "_" and
\* adds ".png"; tp3_V3.py is given the whole name
OutputFile(obj, suffix) ==
    IF prog = "tp3"
    THEN join(obj.output_dir, [stem |-> obj.image_prefix \o suffix, ext |-> ".png"])
    ELSE join(obj.output_dir, [stem |-> suffix, ext |-> ".png"])

\* save_image: plt.imsave(filename, image)
save_image(files, obj, image, suffix) == (OutputFile(obj, suffix) :> image) @@ files

\* a loop that reduces the grid shown last, not the grayscale image
LastShown(obj, shown) == shown[Len(shown)]

\* the grid the loop hands to reduce_gray_levels: self.image_gray
ReduceArgument(obj, shown) == obj.image_gray

\* the reduce_gray_levels of the script that is run
Reduce(gray, level) ==
    IF prog = "tp3" THEN reduce_gray_levels(gray, level)
    ELSE reduce_gray_levels_V3(gray, level)

-----------------------------------------------------------------------------
(* Inputs of the quantizer harness *)

\* the 8-bit grid holding every intensity 0..255 once
Ramp == Array("uint8", [i \in 1..256 |-> i - 1])

\* a grid of n samples starting at v, 37 apart (mod 256)
Gradient(v, n) == Array("uint8", [i \in 1..n |-> (v + (i - 1) * 37) % 256])

BaseSamples == {0, 63, 64, 200, 255}

QImages == {Ramp} \cup {Gradient(v, n) : v \in BaseSamples, n \in 1..MaxPixels}

QLevels == (0 - MaxNegLevels)..(256 + MaxOverLevels)

-----------------------------------------------------------------------------
(* The process of __main__ *)

UrlArg == [scheme |-> "https", dir |-> <<"example.org", "pics">>,
           stem |-> <<"cat">>, ext |-> ".jpg"]

LocalArg == Path(<<"photos">>, <<"photo">>, ".png")

MissingArg == Path(<<"photos">>, <<"nofile">>, ".png")

RunArgs == {NoPath, UrlArg, LocalArg, MissingArg}

\* BGR grids: what a file on disk holds, and what the network delivers
LocalImage == <<<<200, 200, 200>>, <<63, 63, 63>>, <<30, 120, 250>>, <<0, 0, 0>>>>

WebImage == <<<<0, 0, 0>>, <<10, 200, 90>>, <<255, 255, 255>>, <<255, 255, 255>>, <<100, 100, 100>>>>

NetOutcomes == {"image", "corrupt", "partial", "error"}

UserInputs == {"s", "n"}

FsPaths ==
    {abspath(LocalArg), abspath(MissingArg), abspath(join(OutputDir, DefaultName)),
     abspath(join(OutputDir, DefaultNameV3)), abspath(join(OutputDir, basename(UrlArg)))}

InitialFileSystems ==
    {f \in [FsPaths -> {Absent, Corrupt, ImageFile(LocalImage)}] :
        /\ f[abspath(MissingArg)] = Absent
        /\ f[abspath(LocalArg)] # Absent
        /\ f[abspath(join(OutputDir, basename(UrlArg)))] # Corrupt}

NoCalls == [reduce |-> 0, save |-> 0]

RunIdle ==
    /\ pc = "idle"
    /\ self = NoObject
    /\ answer = ""
    /\ error = ""
    /\ level_idx = 0
    /\ images = << >>
    /\ saved = << >>
    /\ fetches = [p \in FsPaths |-> 0]
    /\ calls = NoCalls
    /\ runs = 0

InitRun ==
    /\ numpy2 \in BOOLEAN
    /\ prog \in {"tp3", "tp3_V3"}
    /\ argv \in RunArgs
    /\ fs \in InitialFileSystems
    /\ RunIdle
    /\ q_img = Ramp
    /\ q_levels = 256
    /\ q_once = NotCalled
    /\ q_twice = NotCalled
    /\ q_v3 = NotCalled

Stopped == pc \in {"idle", "done", "exited", "raised"}

\* python tp3.py [image_path] / python tp3_V3.py [image_path]:
\* processor = ImageProcessor(image_path), in a new process
Launch ==
    /\ Stopped
    /\ runs < MaxRuns
    /\ \E user_input \in UserInputs, net \in NetOutcomes :
          LET r == IF prog = "tp3"
                   THEN init_tp3(argv, fs, user_input, net, WebImage)
                   ELSE init_V3(argv, fs, net, WebImage)
          IN  /\ self' = r.self
              /\ fs' = r.fs
              /\ pc' = r.pc
              /\ error' = r.error
              /\ answer' = r.answer
              /\ fetches' = IF r.wrote = NoPath THEN fetches
                            ELSE [fetches EXCEPT ![abspath(r.wrote)] = @ + 1]
    /\ runs' = runs + 1
    /\ level_idx' = 0
    /\ images' = << >>
    /\ calls' = NoCalls
    /\ UNCHANGED <<numpy2, prog, argv, saved, qvars>>

\* processor.get_image_depth()
GetImageDepth ==
    /\ pc = "depth"
    /\ pc' = "show_rgb"
    /\ UNCHANGED <<numpy2, prog, argv, fs, self, answer, error, level_idx, images,
                   saved, fetches, calls, runs, qvars>>

\* the original RGB image is shown and saved
ShowOriginal ==
    /\ pc = "show_rgb"
    /\ images' = Append(images, self.image_rgb)
    /\ saved' = save_image(saved, self, self.image_rgb, <<"original", "rgb">>)
    /\ calls' = [calls EXCEPT !.save = @ + 1]
    /\ pc' = "show_gray"
    /\ UNCHANGED <<numpy2, prog, argv, fs, self, answer, error, level_idx, fetches,
                   runs, qvars>>

\* the grayscale image is shown and saved
ShowGray ==
    /\ pc = "show_gray"
    /\ images' = Append(images, self.image_gray)
    /\ saved' = save_image(saved, self, self.image_gray, <<"gray">>)
    /\ calls' = [calls EXCEPT !.save = @ + 1]
    /\ level_idx' = 1
    /\ pc' = "show_levels"
    /\ UNCHANGED <<numpy2, prog, argv, fs, self, answer, error, fetches, runs, qvars>>

\* one pass of the loop over the levels: reduce, show, save
ShowLevel ==
    /\ pc = "show_levels"
    /\ LET level == LevelsList[level_idx]
           reduced == Reduce(ReduceArgument(self, images), level)
       IN  /\ images' = Append(images, reduced)
           /\ saved' = save_image(saved, self, reduced,
                                  <<"gray", ToString(level), "levels">>)
    /\ calls' = [calls EXCEPT !.reduce = @ + 1, !.save = @ + 1]
    /\ level_idx' = level_idx + 1
    /\ pc' = IF level_idx = Len(LevelsList) THEN "show_canny" ELSE "show_levels"
    /\ UNCHANGED <<numpy2, prog, argv, fs, self, answer, error, fetches, runs, qvars>>

\* the Canny edges are computed, shown and saved
ShowCanny ==
    /\ pc = "show_canny"
    /\ LET canny == Canny(self.image_gray, 100, 200)
       IN  /\ images' = Append(images, canny)
           /\ saved' = save_image(saved, self, canny, <<"canny", "edges">>)
    /\ calls' = [calls EXCEPT !.save = @ + 1]
    /\ pc' = "show_mosaic"
    /\ UNCHANGED <<numpy2, prog, argv, fs, self, answer, error, level_idx, fetches,
                   runs, qvars>>

\* the mosaic is laid out and shown; tp3.py saves the canvas too
ShowMosaic ==
    /\ pc = "show_mosaic"
    /\ saved' = IF prog = "tp3"
                THEN save_image(saved, self,
                                [kind |-> "figure", dtype |-> "none", px |-> images],
                                <<"canvas">>)
                ELSE saved
    /\ pc' = "done"
    /\ UNCHANGED <<numpy2, prog, argv, fs, self, answer, error, level_idx, images,
                   fetches, calls, runs, qvars>>

NextRun ==
    \/ Launch
    \/ GetImageDepth
    \/ ShowOriginal
    \/ ShowGray
    \/ ShowLevel
    \/ ShowCanny
    \/ ShowMosaic

SpecRun == InitRun /\ [][NextRun]_vars

-----------------------------------------------------------------------------
(* The quantizer harness *)

InitQ ==
    /\ numpy2 \in BOOLEAN
    /\ q_img \in QImages
    /\ q_levels \in QLevels
    /\ q_once = NotCalled
    /\ q_twice = NotCalled
    /\ q_v3 = NotCalled
    /\ prog = "tp3"
    /\ argv = NoPath
    /\ fs = [p \in FsPaths |-> Absent]
    /\ RunIdle

\* reduced = processor.reduce_gray_levels(img, levels)
CallReduce ==
    /\ q_once = NotCalled
    /\ q_once' = reduce_gray_levels(q_img, q_levels)
    /\ UNCHANGED <<numpy2, q_img, q_levels, q_twice, q_v3, rvars>>

\* processor.reduce_gray_levels(reduced, levels); an exception of the first
\* call propagates
CallReduceAgain ==
    /\ q_once # NotCalled
    /\ q_twice = NotCalled
    /\ q_twice' = reduce_gray_levels(q_once, q_levels)
    /\ UNCHANGED <<numpy2, q_img, q_levels, q_once, q_v3, rvars>>

\* the same call on tp3_V3.py's ImageProcessor
CallReduceV3 ==
    /\ q_v3 = NotCalled
    /\ q_v3' = reduce_gray_levels_V3(q_img, q_levels)
    /\ UNCHANGED <<numpy2, q_img, q_levels, q_once, q_twice, rvars>>

NextQ == CallReduce \/ CallReduceAgain \/ CallReduceV3

SpecQ == InitQ /\ [][NextQ]_vars

-----------------------------------------------------------------------------
(* Claims about the quantizer, checked under SpecQ *)

Factor(levels) == PyFloorDiv(256, levels)

\* C1: for every 8-bit sample v and every levels in 1..256, tp3.py's
\* reduce_gray_levels returns floor(v / factor) * factor with
\* factor = floor(256 / levels): a multiple of factor, at most v.
C1_FloorTruncation ==
    (q_once # NotCalled /\ q_levels \in 1..256) =>
        /\ q_once.kind = "ok"
        /\ DOMAIN q_once.px = DOMAIN q_img.px
        /\ \A i \in DOMAIN q_img.px :
              /\ q_once.px[i] = (q_img.px[i] \div Factor(q_levels)) * Factor(q_levels)
              /\ q_once.px[i] % Factor(q_levels) = 0
              /\ q_once.px[i] <= q_img.px[i]

\* C2: for levels in 1..256 a reduction of the grid of all 256 intensities
\* maps contiguous buckets to their lowest member, and its distinct output
\* values are at most levels.
C2_BucketsAtMostLevels ==
    (q_img = Ramp /\ q_once.kind = "ok" /\ q_levels \in 1..256) =>
        /\ \A i \in DOMAIN q_once.px :
              /\ q_once.px[i] <= q_img.px[i]
              /\ q_once.px[q_once.px[i] + 1] = q_once.px[i]
              /\ \A j \in DOMAIN q_once.px :
                    (q_once.px[i] <= q_img.px[j] /\ q_img.px[j] <= q_img.px[i])
                        => q_once.px[j] = q_once.px[i]
        /\ Cardinality(Range(q_once.px)) <= q_levels

\* C3: for every levels >= 256 tp3.py's reduce_gray_levels raises nothing
\* and returns a grid equal to its input.
C3_IdentityFrom256 ==
    (q_once # NotCalled /\ q_levels >= 256) => q_once = q_img

C3_Witness ==
    /\ q_levels > 256
    /\ q_once.kind = "ok"
    /\ q_once = q_img
    /\ \E i \in DOMAIN q_img.px : q_img.px[i] # 0

\* C4: a call with levels <= 0 fails and returns no image, in tp3.py and in
\* tp3_V3.py.
C4_NonPositiveLevelsRejected ==
    q_levels <= 0 =>
        /\ q_once # NotCalled => q_once.kind # "ok"
        /\ q_v3 # NotCalled => q_v3.kind # "ok"

C6_LevelsOneAllZero ==
    (q_once # NotCalled /\ q_levels = 1) =>
        /\ q_once.kind = "ok"
        /\ q_once.dtype = q_img.dtype
        /\ DOMAIN q_once.px = DOMAIN q_img.px
        /\ \A i \in DOMAIN q_once.px : q_once.px[i] = 0

\* C10: tp3_V3.py's reduce_gray_levels returns the sample values tp3.py's
\* returns for levels in 1..256, and the input unchanged for levels > 256.
C10_VersionsAgree ==
    (q_once # NotCalled /\ q_v3 # NotCalled /\ q_levels >= 1) =>
        /\ q_v3.kind = q_once.kind
        /\ q_v3.px = q_once.px
        /\ q_levels > 256 => q_v3 = q_img

-----------------------------------------------------------------------------
(* Claims about the program, checked under SpecRun *)

Constructed ==
    pc \in {"depth", "show_rgb", "show_gray", "show_levels", "show_canny",
            "show_mosaic", "done"}

\* C7: reduce_gray_levels changes neither its input nor a field of the
\* ImageProcessor: throughout show_all image_bgr, image_rgb and image_gray
\* are what was loaded, and each of the eight reductions and the Canny edges
\* are computed from the loaded grayscale image.
C7_ReductionsFromOriginal ==
    (prog = "tp3" /\ Constructed) =>
        LET bgr == imread(fs, self.image_path)
            gray == BGR2GRAY(bgr)
        IN  /\ self.image_bgr = bgr
            /\ self.image_rgb = BGR2RGB(bgr)
            /\ self.image_gray = gray
            /\ \A k \in 1..Len(LevelsList) :
                  Len(images) >= 2 + k =>
                      images[2 + k] = reduce_gray_levels(gray, LevelsList[k])
            /\ Len(images) > 2 + Len(LevelsList) =>
                  images[3 + Len(LevelsList)] = Canny(gray, 100, 200)

C7_Witness ==
    /\ prog = "tp3"
    /\ pc = "done"
    /\ calls.reduce = Len(LevelsList)
    /\ images[3] # self.image_gray
    /\ images[4] # images[3]
    /\ images[10] = self.image_gray

\* C8: the constructor fetches only a target that does not exist: over any
\* sequence of runs with the same argument a target is written by at most
\* one fetch, and no existing file is overwritten.
C8_FetchOnlyIfAbsent ==
    [][\A p \in FsPaths :
          /\ fetches'[p] # fetches[p] => (fs[p] = Absent /\ fetches[p] = 0)
          /\ fs[p] # Absent => fs'[p] = fs[p]]_vars

C8_Witness ==
    /\ runs = 2
    /\ pc = "show_rgb"
    /\ saved # << >>
    /\ fetches[abspath(self.image_path)] = 1
    /\ fs[abspath(self.image_path)] = ImageFile(WebImage)

\* C9: in a run of tp3.py reduce_gray_levels and save_image are called only
\* after the constructor has loaded a non-empty image; when the load gives
\* nothing, or the user declines the default image, the run ends with no
\* reduction done and no image saved.
C9_NoProcessingWithoutLoad ==
    prog = "tp3" =>
        /\ (calls # NoCalls \/ images # << >>) =>
              /\ self.image_bgr.kind = "ok"
              /\ Len(self.image_bgr.px) > 0
              /\ imread(fs, self.image_path).kind = "ok"
        /\ (self.image_bgr.kind = "None" \/ answer \notin {"", "s"} \/ error # "") =>
              /\ pc \in {"raised", "exited"}
              /\ calls = NoCalls
              /\ images = << >>
              /\ runs = 1 => saved = << >>

C9_Witness ==
    /\ prog = "tp3"
    /\ pc = "raised"
    /\ error = "FileNotFoundError"
    /\ self.image_bgr.kind = "None"
    /\ calls = NoCalls
    /\ saved = << >>

====
